---- MODULE Spec2Model ----
(***************************************************************************)
(* Wumpus world (wumpus_text.py) driven by the tabular learning agents of  *)
(* tp4.py: EpsilonGreedy, Softmax and UCB over the encodings BSF, ABSF and *)
(* XYBSF.                                                                  *)
(*                                                                         *)
(* Rewards are the floats -1., 5., 100., -10. of Environment.__init__ and  *)
(* UCB divides by 101, so every entry of cum_rewards is kept as an integer *)
(* numerator over the common denominator RewardScale = 101: the entry      *)
(* whose value is v holds v * 101.                                         *)
(***************************************************************************)
EXTENDS Integers, Sequences, FiniteSets, TLC

\* ---------------------------------------------------------------- bounds
\* --grid_size, --n_flash and --max_n_episode of the command line
grid_size == 3
n_flash == 1
max_n_episode == 2
\* longest dimension list and largest dimension the ravel checks enumerate
MaxRank == 3
MaxDim == 3

\* ------------------------------------------------------ enum Action
UP == 1
DOWN == 2
LEFT == 3
RIGHT == 4
FLASH_UP == 5
FLASH_DOWN == 6
FLASH_LEFT == 7
FLASH_RIGHT == 8

\* len(Action)
LenAction == Cardinality({UP, DOWN, LEFT, RIGHT, FLASH_UP, FLASH_DOWN, FLASH_LEFT, FLASH_RIGHT})

Action == 1..LenAction

\* ------------------------------------------------ Environment.__init__
hole_pos_ == <<1, 1>>
treasure_pos_ == <<grid_size - 1, grid_size - 1>>
DEFAULT_N_FLASH == n_flash
DEFAULT_REWARD == -1
KILL_REWARD == 5
TREASURE_REWARD == 100
HOLE_REWARD == -10
WUMPUS_REWARD == -10

\* denominator of UCB.nextState's rescaling
RewardScale == 101

\* ------------------------------------------------------------ helpers
Abs(x) == IF x < 0 THEN -x ELSE x
Min(x, y) == IF x < y THEN x ELSE y
Max(x, y) == IF x > y THEN x ELSE y

\* ------------------------------------------------------------- ravel
\* the loop of ravel: zip(coords[1:], dims[1:]) stops at the shorter list
RECURSIVE ravelLoop(_, _, _, _)
ravelLoop(id, coords, dims, k) ==
    IF k > Len(coords) \/ k > Len(dims) THEN id
    ELSE ravelLoop(id * dims[k] + coords[k], coords, dims, k + 1)

\* the fold taken with the dimension list shifted the other way
RECURSIVE ravelLoopShifted(_, _, _, _)
ravelLoopShifted(id, coords, dims, k) ==
    IF k > Len(coords) \/ k > Len(dims) THEN id
    ELSE ravelLoopShifted(id * dims[k - 1] + coords[k], coords, dims, k + 1)

ravelShifted(coords, dims) == ravelLoopShifted(coords[1], coords, dims, 2)

\* the fold started from 0 in place of coords[0]
ravelDropFirst(coords, dims) == ravelLoop(0, coords, dims, 2)

ravel(coords, dims) == ravelLoop(coords[1], coords, dims, 2)

\* np.prod
RECURSIVE prod(_)
prod(dims) == IF Len(dims) = 0 THEN 1 ELSE dims[1] * prod(Tail(dims))

\* ------------------------------------------------------ state encodings
\* StateEncoding.__init__ as called by BSF, ABSF and XYBSF
state_dims(enc) ==
    CASE enc = "BSF" -> <<2, 2, n_flash + 1>>
      [] enc = "ABSF" -> <<LenAction, 2, 2, n_flash + 1>>
      [] enc = "XYBSF" -> <<grid_size, grid_size, 2, 2, n_flash + 1>>

\* get_state of the three encodings: st is agent.state_, la is agent.last_action
get_state(enc, st, la) ==
    CASE enc = "BSF" -> SubSeq(st, 3, Len(st))
      [] enc = "ABSF" -> <<la - 1>> \o SubSeq(st, 3, Len(st))
      [] enc = "XYBSF" -> st

get_state_id(enc, st, la) == ravel(get_state(enc, st, la), state_dims(enc))

\* number of rows of cum_rewards and n_visits
NRows(enc) == prod(state_dims(enc))

\* ------------------------------------------------------- Environment
\* the initial state with the flashes the last episode left
getInitStateNoFlash == <<0, 0, 0, 0, 0>>
getInitState == <<0, 0, 0, 0, DEFAULT_N_FLASH>>

InitWumpusPos == <<1, 2>>

DeadWumpusPos == <<-1, -1>>

\* the first half of moveAgent: the neighbouring cell
stepPos(curr_pos, a) ==
    CASE a = UP -> <<curr_pos[1], curr_pos[2] + 1>>
      [] a = DOWN -> <<curr_pos[1], curr_pos[2] - 1>>
      [] a = LEFT -> <<curr_pos[1] - 1, curr_pos[2]>>
      [] a = RIGHT -> <<curr_pos[1] + 1, curr_pos[2]>>

\* the torus wrapped at the upper edge only
wrapUpperOnly(c) == IF c = grid_size THEN 0 ELSE c

\* one coordinate on the torus: only the values grid_size and -1 are wrapped
wrap(c) == IF c = grid_size THEN 0 ELSE IF c = -1 THEN grid_size - 1 ELSE c

\* one coordinate on the bounded grid
clamp(c) == Max(0, Min(grid_size - 1, c))

moveAgent(tore, curr_pos, a) ==
    LET next_pos == stepPos(curr_pos, a)
    IN  IF ~tore THEN <<clamp(next_pos[1]), clamp(next_pos[2])>>
        ELSE <<wrap(next_pos[1]), wrap(next_pos[2])>>

\* the cell a flash action lights, seen from agent_pos (no wrap, no clamp)
flashTarget(agent_pos, a) ==
    CASE a = FLASH_UP -> <<agent_pos[1], agent_pos[2] + 1>>
      [] a = FLASH_DOWN -> <<agent_pos[1], agent_pos[2] - 1>>
      [] a = FLASH_LEFT -> <<agent_pos[1] - 1, agent_pos[2]>>
      [] a = FLASH_RIGHT -> <<agent_pos[1] + 1, agent_pos[2]>>

\* flashAgent: TRUE when the wumpus is hit (the caller then sees it at [-1,-1])
flashAgent(s, a, wpos) ==
    /\ s[5] > 0
    /\ wpos[1] >= 0
    /\ wpos = flashTarget(<<s[1], s[2]>>, a)

\* the three tests made one after the other, their rewards added up
testForEndSummed(s, wpos) ==
    << (IF wpos[1] = s[1] /\ wpos[2] = s[2] THEN WUMPUS_REWARD ELSE 0)
           + (IF hole_pos_[1] = s[1] /\ hole_pos_[2] = s[2] THEN HOLE_REWARD ELSE 0)
           + (IF treasure_pos_[1] = s[1] /\ treasure_pos_[2] = s[2] THEN TREASURE_REWARD ELSE 0),
       \/ (wpos[1] = s[1] /\ wpos[2] = s[2])
       \/ (hole_pos_[1] = s[1] /\ hole_pos_[2] = s[2])
       \/ (treasure_pos_[1] = s[1] /\ treasure_pos_[2] = s[2]) >>
\* testForEnd: (end_reward, end_flag)
testForEnd(s, wpos) ==
    IF wpos[1] = s[1] /\ wpos[2] = s[2] THEN <<WUMPUS_REWARD, TRUE>>
    ELSE IF hole_pos_[1] = s[1] /\ hole_pos_[2] = s[2] THEN <<HOLE_REWARD, TRUE>>
    ELSE IF treasure_pos_[1] = s[1] /\ treasure_pos_[2] = s[2] THEN <<TREASURE_REWARD, TRUE>>
    ELSE <<0, FALSE>>

\* a breeze felt on the hole's own cell only
updateSenseOnCell(agent_pos, wpos) ==
    << IF Abs(wpos[1] - agent_pos[1]) + Abs(wpos[2] - agent_pos[2]) < 2 THEN 1 ELSE 0,
       IF Abs(hole_pos_[1] - agent_pos[1]) + Abs(hole_pos_[2] - agent_pos[2]) < 1 THEN 1 ELSE 0 >>
\* updateSense: [smell, breeze]
updateSense(agent_pos, wpos) ==
    << IF Abs(wpos[1] - agent_pos[1]) + Abs(wpos[2] - agent_pos[2]) < 2 THEN 1 ELSE 0,
       IF Abs(hole_pos_[1] - agent_pos[1]) + Abs(hole_pos_[2] - agent_pos[2]) < 2 THEN 1 ELSE 0 >>

\* the moves moveWumpus draws from: np.random.randint(1,4)
WumpusMoves == 1..3

\* the reward Environment.nextState returns: reward + end_reward
stepRewardNoEnd(flash_success, end_reward) ==
    IF flash_success THEN DEFAULT_REWARD + KILL_REWARD ELSE DEFAULT_REWARD

\* the treasure paid without the step cost
stepRewardEndOnly(flash_success, end_reward) ==
    IF end_reward # 0 THEN end_reward
    ELSE IF flash_success THEN DEFAULT_REWARD + KILL_REWARD ELSE DEFAULT_REWARD
stepReward(flash_success, end_reward) ==
    (IF flash_success THEN DEFAULT_REWARD + KILL_REWARD ELSE DEFAULT_REWARD) + end_reward

\* nextState without the test n_flash > 0
envNextStateAlwaysFires(tore, dyn, s, a, wpos, wm) ==
    LET pos0 == <<s[1], s[2]>>
        next_agent_pos == IF a < 5 THEN moveAgent(tore, pos0, a) ELSE pos0
        fires == a >= 5
        flash_success == fires /\ flashAgent(s, a, wpos)
        nfl == IF fires THEN s[5] - 1 ELSE s[5]
        wpos1 == IF flash_success THEN DeadWumpusPos ELSE wpos
        sense == updateSense(next_agent_pos, wpos1)
        ns == next_agent_pos \o sense \o <<nfl>>
        e == testForEnd(ns, wpos1)
        wpos2 == IF dyn THEN moveAgent(tore, wpos1, wm) ELSE wpos1
    IN  [new_state |-> ns, reward |-> stepReward(flash_success, e[1]), end_flag |-> e[2], wumpus |-> wpos2]

\* Environment.nextState for the action a chosen by the agent in state s with the
\* wumpus at wpos and wm the move moveWumpus draws:
\* the record (new_state, reward, end_flag, wumpus_pos_ afterwards)
envNextState(tore, dyn, s, a, wpos, wm) ==
    LET pos0 == <<s[1], s[2]>>
        next_agent_pos == IF a < 5 THEN moveAgent(tore, pos0, a) ELSE pos0
        fires == a >= 5 /\ s[5] > 0
        flash_success == fires /\ flashAgent(s, a, wpos)
        nfl == IF fires THEN s[5] - 1 ELSE s[5]
        wpos1 == IF flash_success THEN DeadWumpusPos ELSE wpos
        sense == updateSense(next_agent_pos, wpos1)
        ns == next_agent_pos \o sense \o <<nfl>>
        e == testForEnd(ns, wpos1)
        wpos2 == IF dyn THEN moveAgent(tore, wpos1, wm) ELSE wpos1
    IN  [new_state |-> ns, reward |-> stepReward(flash_success, e[1]), end_flag |-> e[2], wumpus |-> wpos2]


\* ---------------------------------------------------------------- state
VARIABLES
    kind,            \* class of the agent: "EpsilonGreedy", "Softmax", "UCB" or "Engineered"
    epsilon,         \* EpsilonGreedy.epsilon: "zero" (0), "mid" (in (0,1)) or "one" (1)
    encoding,        \* agent.encoding: "BSF", "ABSF" or "XYBSF" ("none": EngineeredAgent has none)
    TORE_TOPO,       \* Environment.TORE_TOPO
    DYN_WUMPUS,      \* Environment.DYN_WUMPUS
    cum_rewards,     \* agent.cum_rewards[state_id][action-1], in units of 1/RewardScale
    n_visits,        \* agent.n_visits[state_id][action-1]
    first_visit,     \* agent.first_visit
    current_action,  \* agent.current_action
    last_action,     \* agent.last_action (0 while the attribute is not set)
    state_,          \* agent.state_ (<<>> while the attribute is not set)
    last_dir,        \* EngineeredAgent.last_dir (0 for the agents that have no such attribute)
    wumpus_pos_,     \* environment.wumpus_pos_
    time_step_,      \* platform.time_step_
    cumul_reward_,   \* platform.cumul_reward_
    new_state,       \* updateLoop's local new_state
    a,               \* updateLoop's local a, the action getAction returned
    reward,          \* updateLoop's local reward
    end_flag,        \* updateLoop's local end_flag
    n_calls,         \* number of updateLoop calls the main loop has started
    pc,              \* position of the program
    sel_state_id,    \* history: get_state_id at the latest getAction
    n_updates,       \* history: number of table updates made so far
    n_episodes,      \* history: number of episodes updateLoop has ended
    coords,          \* first argument of a ravel call made on its own
    dims,            \* second argument of that call
    id               \* its result (-1 before the call)

config == <<kind, epsilon, encoding, TORE_TOPO, DYN_WUMPUS>>
tables == <<cum_rewards, n_visits>>
agentvars == <<first_visit, current_action, last_action, state_, last_dir>>
locals == <<new_state, a, reward, end_flag>>
platformvars == <<time_step_, cumul_reward_, n_calls>>
ravelvars == <<coords, dims, id>>
vars == <<config, tables, agentvars, wumpus_pos_, locals, platformvars, pc,
          sel_state_id, n_updates, n_episodes, ravelvars>>

\* ------------------------------------------------------------- the agent
\* Agent.getAction: np.random.randint(1, len(Action)) leaves the upper end out
AgentGetAction == 1..(LenAction - 1)

\* every table allocated with np.zeros_like
visitInitZero(k) == 0

\* n_visits allocated with np.ones_like by every constructor
visitInitOne(k) == 1
\* initial value of every n_visits entry
visitInit(k) == IF k = "UCB" THEN 0 ELSE 1

\* np.zeros / np.ones_like tables of the three constructors
InitTable(enc, v) == [s \in 0..(NRows(enc) - 1) |-> [c \in 0..(LenAction - 1) |-> v]]

\* cr[i]/nv[i] > cr[j]/nv[j] for positive visit counts
MeanGreater(cr, nv, i, j) == cr[i] * nv[j] > cr[j] * nv[i]

\* the last index of the maximum in place of the first
argmaxMeanLast(cr, nv) ==
    CHOOSE i \in DOMAIN cr :
        /\ \A j \in DOMAIN cr : ~MeanGreater(cr, nv, j, i)
        /\ \A j \in DOMAIN cr : j > i => MeanGreater(cr, nv, i, j)
\* np.argmax(cum_rewards[state_id] / n_visits[state_id]): first index of the maximum
argmaxMean(cr, nv) ==
    CHOOSE i \in DOMAIN cr :
        /\ \A j \in DOMAIN cr : ~MeanGreater(cr, nv, j, i)
        /\ \A j \in DOMAIN cr : j < i => MeanGreater(cr, nv, i, j)

\* EpsilonGreedy.getActionReal: the actions it can return
epsilonGreedyActions(eps, cr, nv) ==
    (IF eps # "zero" THEN AgentGetAction ELSE {})
        \cup (IF eps # "one" THEN {1 + argmaxMean(cr, nv)} ELSE {})

\* Softmax.getActionReal: every action has a positive probability
softmaxActions(cr, nv) == {1 + i : i \in DOMAIN cr}

\* the argmax taken over the scores that are numbers (np.nanargmax)
ucbActionsNanIgnored(cr, nv) ==
    IF \A i \in DOMAIN nv : nv[i] = 0
    THEN {UP}
    ELSE {1 + i : i \in {j \in DOMAIN nv : nv[j] # 0}}
\* UCB.getActionReal: 0/0 is nan for an action never visited, nan + x is nan and
\* np.argmax returns the first nan; with every count positive the scores depend
\* on lbda, sqrt and log, and any action may be the argmax
ucbActions(cr, nv) ==
    IF \E i \in DOMAIN nv : nv[i] = 0
    THEN {1 + (CHOOSE i \in DOMAIN nv : nv[i] = 0 /\ \A j \in DOMAIN nv : j < i => nv[j] # 0)}
    ELSE {1 + i : i \in DOMAIN nv}

\* tp4.moves and tp4.flashes
moves == {UP, DOWN, LEFT, RIGHT}
flashes == {FLASH_UP, FLASH_DOWN, FLASH_LEFT, FLASH_RIGHT}

\* EngineeredAgent.getAction: "x, y, breeze, smell, num_flash = self.state_" binds
\* the name smell to the fourth component of the state and num_flash to the
\* fifth; np.random.choice over moves and flashes when both are non-zero,
\* over moves otherwise
engineeredActions(st) ==
    IF st[4] # 0 /\ st[5] # 0 THEN moves \cup flashes ELSE moves

getActionReal(k, eps, cr, nv) ==
    CASE k = "EpsilonGreedy" -> epsilonGreedyActions(eps, cr, nv)
      [] k = "Softmax" -> softmaxActions(cr, nv)
      [] k = "UCB" -> ucbActions(cr, nv)

\* UCB without its own nextState: the reward is added as it comes
tableRewardUnscaled(k, r) == r * RewardScale

\* the reward nextState adds to cum_rewards, in units of 1/RewardScale:
\* UCB.nextState rescales it to (reward + 1) / 101 first
tableReward(k, r) == IF k = "UCB" THEN r + 1 ELSE r * RewardScale

\* the row computed after last_action has already been overwritten
updateStateIdLate == get_state_id(encoding, state_, current_action)

\* the row EpsilonGreedy.nextState updates: get_state_id before state_ and
\* last_action are overwritten
updateStateId == get_state_id(encoding, state_, last_action)

\* the update written with = in place of +=
addAtAssign(table, sid, act, r) == [table EXCEPT ![sid][act - 1] = r]

\* table[state_id, action - 1] += r
addAt(table, sid, act, r) == [table EXCEPT ![sid][act - 1] = @ + r]

\* nextState without the else branch
firstVisitKept(fv) == fv

\* nextState flipping the flag on every call
firstVisitToggled(fv) == ~fv
\* first_visit after nextState: untouched when False, set to False when True
firstVisitAfter(fv) == IF ~fv THEN fv ELSE FALSE

\* reset that allocates the table again
tableCleared(table) == [s \in DOMAIN table |-> [c \in DOMAIN table[s] |-> 0]]

\* a table after EpsilonGreedy.reset: "do not actually reset training stuff"
tableAfterReset(table) == table

\* EpsilonGreedy.nextState / UCB.nextState (s, r); an EngineeredAgent has
\* Agent.nextState, which stores s only
agentNextState(s, r) ==
    IF kind = "Engineered"
    THEN /\ state_' = s
         /\ UNCHANGED <<tables, n_updates, first_visit, last_action, current_action, last_dir>>
    ELSE /\ IF ~first_visit
            THEN /\ cum_rewards' = addAt(cum_rewards, updateStateId, current_action, tableReward(kind, r))
                 /\ n_visits' = addAt(n_visits, updateStateId, current_action, 1)
                 /\ n_updates' = n_updates + 1
            ELSE UNCHANGED <<tables, n_updates>>
         /\ first_visit' = firstVisitAfter(first_visit)
         /\ state_' = s
         /\ last_action' = current_action
         /\ UNCHANGED <<current_action, last_dir>>


\* ------------------------------------------------------------ the program
Kinds == {"EpsilonGreedy", "Softmax", "UCB"}
Encodings == {"BSF", "ABSF", "XYBSF"}
Epsilons == {"zero", "mid", "one"}

\* the agent is constructed (tables allocated, Agent.__init__ has called reset()),
\* the platform has run its own reset(), Environment.__init__ is about to call reset().
\* A moving wumpus (--wumpus_dyn True) triples the outcomes of every step. The
\* environment never reads the agent's class or encoding, so those runs are explored
\* with the agents whose choice is determined by the table (UCB, EpsilonGreedy with
\* epsilon 0) and with Softmax over BSF, which can return every action in every
\* state; the runs with --wumpus_dyn False (the default) with every agent.
Init ==
    /\ kind \in Kinds
    /\ epsilon \in (IF kind = "EpsilonGreedy" THEN Epsilons ELSE {"mid"})
    /\ encoding \in Encodings
    /\ TORE_TOPO \in BOOLEAN
    /\ DYN_WUMPUS \in (IF \/ kind = "UCB"
                           \/ (kind = "EpsilonGreedy" /\ epsilon = "zero")
                           \/ (kind = "Softmax" /\ encoding = "BSF")
                        THEN BOOLEAN ELSE {FALSE})
    /\ cum_rewards = InitTable(encoding, 0)
    /\ n_visits = InitTable(encoding, visitInit(kind))
    /\ first_visit = TRUE
    /\ current_action \in AgentGetAction
    /\ last_action = 0
    /\ state_ = <<>>
    /\ last_dir = 0
    /\ wumpus_pos_ = <<>>
    /\ time_step_ = 0
    /\ cumul_reward_ = 0
    /\ new_state = <<>>
    /\ a = 0
    /\ reward = 0
    /\ end_flag = FALSE
    /\ n_calls = 0
    /\ pc = "reset_agent"
    /\ sel_state_id = -1
    /\ n_updates = 0
    /\ n_episodes = 0
    /\ coords = <<>>
    /\ dims = <<>>
    /\ id = -1

\* a loop that runs once more than range() does
mainLoopContinuesOnceMore(n) == n <= max_n_episode

\* for i in range(int(my_args["--max_n_episode"])): n calls made, is there another
mainLoopContinues(n) == n < max_n_episode

\* EpsilonGreedy.reset or EngineeredAgent.reset, called first by Environment.reset
AgentReset ==
    /\ pc = "reset_agent"
    /\ IF kind = "Engineered"
       THEN /\ last_dir' \in moves
            /\ UNCHANGED <<first_visit, current_action, tables>>
       ELSE /\ first_visit' = TRUE
            /\ current_action' \in AgentGetAction
            /\ cum_rewards' = tableAfterReset(cum_rewards)
            /\ n_visits' = tableAfterReset(n_visits)
            /\ UNCHANGED last_dir
    /\ pc' = "reset_next"
    /\ UNCHANGED <<config, last_action, state_, wumpus_pos_, locals,
                   platformvars, sel_state_id, n_updates, n_episodes, ravelvars>>

\* the rest of Environment.reset: agent.nextState(init_state, 0.), wumpus at [1,2]
EnvReset ==
    /\ pc = "reset_next"
    /\ agentNextState(getInitState, 0)
    /\ wumpus_pos_' = InitWumpusPos
    /\ pc' = "loop"
    /\ UNCHANGED <<config, locals, platformvars, sel_state_id, n_episodes, ravelvars>>

\* the main loop starts updateLoop, whose Environment.nextState calls agent.getAction
GetAction ==
    /\ pc = "loop"
    /\ mainLoopContinues(n_calls)
    /\ n_calls' = n_calls + 1
    /\ IF kind = "Engineered"
       THEN /\ a' \in engineeredActions(state_)
            /\ last_dir' = IF a' \in moves THEN a' ELSE last_dir
            /\ UNCHANGED <<current_action, sel_state_id>>
       ELSE LET sid == get_state_id(encoding, state_, last_action)
            IN  /\ current_action' \in getActionReal(kind, epsilon, cum_rewards[sid], n_visits[sid])
                /\ sel_state_id' = sid
                /\ a' = current_action'
                /\ UNCHANGED last_dir
    /\ pc' = "env"
    /\ UNCHANGED <<config, tables, first_visit, last_action, state_, wumpus_pos_,
                   new_state, reward, end_flag, time_step_, cumul_reward_,
                   n_updates, n_episodes, ravelvars>>

\* the rest of Environment.nextState
EnvNextState ==
    /\ pc = "env"
    /\ \E wm \in (IF DYN_WUMPUS THEN WumpusMoves ELSE {UP}) :
          LET r == envNextState(TORE_TOPO, DYN_WUMPUS, state_, a, wumpus_pos_, wm)
          IN  /\ new_state' = r.new_state
              /\ reward' = r.reward
              /\ end_flag' = r.end_flag
              /\ wumpus_pos_' = r.wumpus
    /\ pc' = "agent_next"
    /\ UNCHANGED <<config, tables, agentvars, a, platformvars, sel_state_id,
                   n_updates, n_episodes, ravelvars>>

\* updateLoop after Environment.nextState: agent.nextState(new_state, reward),
\* the counters, and the test of end_flag
AgentNextState ==
    /\ pc = "agent_next"
    /\ agentNextState(new_state, reward)
    /\ time_step_' = time_step_ + 1
    /\ cumul_reward_' = cumul_reward_ + reward
    /\ pc' = IF end_flag THEN "end" ELSE "loop"
    /\ UNCHANGED <<config, wumpus_pos_, locals, n_calls, sel_state_id, n_episodes, ravelvars>>

\* updateLoop on end_flag: self.reset(), then self.environment.reset()
PlatformReset ==
    /\ pc = "end"
    /\ time_step_' = 0
    /\ cumul_reward_' = 0
    /\ n_episodes' = n_episodes + 1
    /\ pc' = "reset_agent"
    /\ UNCHANGED <<config, tables, agentvars, wumpus_pos_, locals, n_calls,
                   sel_state_id, n_updates, ravelvars>>

\* the main loop has made its max_n_episode calls
Finish ==
    /\ pc = "loop"
    /\ ~mainLoopContinues(n_calls)
    /\ pc' = "done"
    /\ UNCHANGED <<config, tables, agentvars, wumpus_pos_, locals, platformvars,
                   sel_state_id, n_updates, n_episodes, ravelvars>>

Next ==
    \/ AgentReset
    \/ EnvReset
    \/ GetAction
    \/ EnvNextState
    \/ AgentNextState
    \/ PlatformReset
    \/ Finish

Spec == Init /\ [][Next]_vars

\* ------------------------------------------ the program as __main__ runs it
\* agent = tp4.EngineeredAgent(): Agent.__init__ has called reset(), which drew
\* last_dir; the agent has no table and no encoding
InitEngineered ==
    /\ kind = "Engineered"
    /\ epsilon = "mid"
    /\ encoding = "none"
    /\ TORE_TOPO \in BOOLEAN
    /\ DYN_WUMPUS \in BOOLEAN
    /\ cum_rewards = <<>>
    /\ n_visits = <<>>
    /\ first_visit = FALSE
    /\ current_action = 0
    /\ last_action = 0
    /\ state_ = <<>>
    /\ last_dir \in moves
    /\ wumpus_pos_ = <<>>
    /\ time_step_ = 0
    /\ cumul_reward_ = 0
    /\ new_state = <<>>
    /\ a = 0
    /\ reward = 0
    /\ end_flag = FALSE
    /\ n_calls = 0
    /\ pc = "reset_agent"
    /\ sel_state_id = -1
    /\ n_updates = 0
    /\ n_episodes = 0
    /\ coords = <<>>
    /\ dims = <<>>
    /\ id = -1

SpecEngineered == InitEngineered /\ [][Next]_vars

\* the program is sequential and each of its parts returns: a step that can be
\* taken is taken
FairSpecEngineered == SpecEngineered /\ WF_vars(Next)
\* --------------------------------------------------- ravel on its own
\* dimension lists and coordinate tuples of length 1..MaxRank
DimLists == UNION {[1..n -> 1..MaxDim] : n \in 1..MaxRank}
CoordLists == UNION {[1..n -> 0..(MaxDim - 1)] : n \in 1..MaxRank}

InitRavel ==
    /\ kind = "EpsilonGreedy"
    /\ epsilon = "mid"
    /\ encoding = "BSF"
    /\ TORE_TOPO = TRUE
    /\ DYN_WUMPUS = FALSE
    /\ cum_rewards = InitTable(encoding, 0)
    /\ n_visits = InitTable(encoding, visitInit(kind))
    /\ first_visit = TRUE
    /\ current_action = UP
    /\ last_action = 0
    /\ state_ = <<>>
    /\ last_dir = 0
    /\ wumpus_pos_ = <<>>
    /\ time_step_ = 0
    /\ cumul_reward_ = 0
    /\ new_state = <<>>
    /\ a = 0
    /\ reward = 0
    /\ end_flag = FALSE
    /\ n_calls = 0
    /\ pc = "ravel"
    /\ sel_state_id = -1
    /\ n_updates = 0
    /\ n_episodes = 0
    /\ coords \in CoordLists
    /\ dims \in DimLists
    /\ id = -1

\* one call id = ravel(coords, dims)
RavelCall ==
    /\ pc = "ravel"
    /\ id' = ravel(coords, dims)
    /\ pc' = "raveled"
    /\ UNCHANGED <<config, tables, agentvars, wumpus_pos_, locals, platformvars,
                   sel_state_id, n_updates, n_episodes, coords, dims>>

NextRavel == RavelCall

SpecRavel == InitRavel /\ [][NextRavel]_vars


\* ------------------------------------------------- getAction on its own
\* the rewards one table entry has received: none, one step cost, or a step cost
\* and then the treasure (a move) or a kill (a flash)
RewardHistories(act) ==
    {<<>>,
     <<DEFAULT_REWARD>>,
     <<DEFAULT_REWARD,
       DEFAULT_REWARD + (IF act <= RIGHT THEN TREASURE_REWARD ELSE KILL_REWARD)>>}

RECURSIVE sumRewards(_, _)
\* what the nextState calls of a history have added to cum_rewards
sumRewards(k, h) == IF h = <<>> THEN 0 ELSE tableReward(k, Head(h)) + sumRewards(k, Tail(h))

\* the table row [action - 1 -> history] leaves in cum_rewards and in n_visits
rowCum(k, hist) == [c \in 0..(LenAction - 1) |-> sumRewards(k, hist[c])]
rowVisits(k, hist) == [c \in 0..(LenAction - 1) |-> visitInit(k) + Len(hist[c])]

\* an agent of a longer run, standing on the start cell after Environment.reset:
\* the row of its state holds the sums of some earlier rewards, and the main
\* loop's calls are counted from here
InitGetAction ==
    /\ kind \in Kinds
    /\ epsilon \in (IF kind = "EpsilonGreedy" THEN Epsilons ELSE {"mid"})
    /\ encoding = "BSF"
    /\ TORE_TOPO = TRUE
    /\ DYN_WUMPUS = FALSE
    /\ \E hist \in [0..(LenAction - 1) -> UNION {RewardHistories(act) : act \in Action}] :
          /\ \A c \in 0..(LenAction - 1) : hist[c] \in RewardHistories(c + 1)
          /\ cum_rewards = [InitTable(encoding, 0) EXCEPT
                                ![get_state_id(encoding, getInitState, UP)] = rowCum(kind, hist)]
          /\ n_visits = [InitTable(encoding, visitInit(kind)) EXCEPT
                                ![get_state_id(encoding, getInitState, UP)] = rowVisits(kind, hist)]
    /\ first_visit = FALSE
    /\ current_action = UP
    /\ last_action = UP
    /\ state_ = getInitState
    /\ last_dir = 0
    /\ wumpus_pos_ = InitWumpusPos
    /\ time_step_ = 0
    /\ cumul_reward_ = 0
    /\ new_state = <<>>
    /\ a = 0
    /\ reward = 0
    /\ end_flag = FALSE
    /\ n_calls = 0
    /\ pc = "loop"
    /\ sel_state_id = -1
    /\ n_updates = 0
    /\ n_episodes = 0
    /\ coords = <<>>
    /\ dims = <<>>
    /\ id = -1

NextGetAction == GetAction

SpecGetAction == InitGetAction /\ [][NextGetAction]_vars
\* ------------------------------------- Environment.nextState on its own
\* --n_flash of the command line: [default: 5]
opt_n_flash == 5

Cells == (0..(grid_size - 1)) \X (0..(grid_size - 1))

\* the cells an episode can be in when a step starts: not the hole, not the treasure
StartCells == Cells \ {hole_pos_, treasure_pos_}

\* where moveWumpus puts a wumpus that a flash has just set to [-1,-1]
AfterKillMoves(tore) == {moveAgent(tore, DeadWumpusPos, wm) : wm \in WumpusMoves}

\* any step of any episode, of up to opt_n_flash flashes: the agent on a cell where
\* the episode has not ended, the wumpus where it started or dead and the smell
\* flag as updateSense left it; or, with a moving wumpus, the wumpus on any cell
\* or where the move that follows a kill has put it (it moves after testForEnd
\* and after updateSense, so the smell flag is out of date and it may share the
\* agent's cell); the agent has returned the action a
InitEnv ==
    /\ kind = "Softmax"
    /\ epsilon = "mid"
    /\ encoding = "BSF"
    /\ TORE_TOPO \in BOOLEAN
    /\ DYN_WUMPUS \in BOOLEAN
    /\ cum_rewards = InitTable(encoding, 0)
    /\ n_visits = InitTable(encoding, visitInit(kind))
    /\ first_visit = FALSE
    /\ current_action \in Action
    /\ last_action = UP
    /\ last_dir = 0
    /\ wumpus_pos_ \in (IF DYN_WUMPUS THEN Cells \cup AfterKillMoves(TORE_TOPO)
                        ELSE {InitWumpusPos, DeadWumpusPos})
    /\ \E pos \in StartCells, smell \in {0, 1}, count \in 0..opt_n_flash :
          /\ ~DYN_WUMPUS => (pos # wumpus_pos_ /\ smell = updateSense(pos, wumpus_pos_)[1])
          /\ state_ = pos \o <<smell, updateSense(pos, wumpus_pos_)[2], count>>
    /\ time_step_ = 0
    /\ cumul_reward_ = 0
    /\ new_state = <<>>
    /\ a = current_action
    /\ reward = 0
    /\ end_flag = FALSE
    /\ n_calls = 1
    /\ pc = "env"
    /\ sel_state_id = -1
    /\ n_updates = 0
    /\ n_episodes = 0
    /\ coords = <<>>
    /\ dims = <<>>
    /\ id = -1

NextEnv == EnvNextState

SpecEnv == InitEnv /\ [][NextEnv]_vars
\* ----------------------------------------------------------- properties
\* the entries in which two tables differ
Changed(t, u) == {e \in (DOMAIN t) \X (0..(LenAction - 1)) : t[e[1]][e[2]] # u[e[1]][e[2]]}

\* the reward EpsilonGreedy.nextState is passed during updateLoop, in units of
\* 1/RewardScale: UCB.nextState passes (reward + 1) / 101, the others reward
PassedReward == IF kind = "UCB" THEN reward + 1 ELSE reward * RewardScale

\* state index of the observation the agent holds
HeldStateId == get_state_id(encoding, state_, last_action)

\* C1: the first nextState call after reset() (the one Environment.reset makes)
\* changes no table entry and sets first_visit to false; every later nextState
\* call (the one of updateLoop) updates exactly one entry, at (state index of the
\* observation held before the call, action returned by the latest getAction),
\* with the reward passed in to EpsilonGreedy.nextState (UCB.nextState passes the
\* rescaled reward on)
C1_FirstCallSkipsLaterCallsUpdate ==
    [][ /\ pc = "reset_next" =>
              /\ first_visit
              /\ cum_rewards' = cum_rewards
              /\ n_visits' = n_visits
              /\ n_updates' = n_updates
              /\ first_visit' = FALSE
        /\ pc = "agent_next" =>
              /\ HeldStateId \in DOMAIN n_visits
              /\ a - 1 \in DOMAIN n_visits[HeldStateId]
              /\ n_visits' = [n_visits EXCEPT ![HeldStateId][a - 1] = @ + 1]
              /\ cum_rewards' = [cum_rewards EXCEPT ![HeldStateId][a - 1] = @ + PassedReward]
              /\ n_updates' = n_updates + 1
              /\ first_visit' = FALSE
      ]_vars

\* two updateLoop calls of one episode have each updated the table
C1_Witness ==
    /\ pc = "loop"
    /\ time_step_ = 2
    /\ n_updates = 2
    /\ ~first_visit

\* C2: the row a nextState update uses is the row the encoding gave when the
\* preceding getAction chose the rewarded action; between the two calls the
\* tuple of the encoding (for ABSF its previous-action component) does not change
C2_UpdateRowIsSelectionRow ==
    [][ /\ pc \in {"env", "agent_next"} =>
              /\ HeldStateId = sel_state_id
              /\ encoding = "ABSF" => get_state(encoding, state_, last_action)[1] = last_action - 1
        /\ pc = "env" => get_state(encoding, state_, last_action)' = get_state(encoding, state_, last_action)
        /\ pc = "agent_next" =>
              /\ n_visits'[sel_state_id][current_action - 1] # n_visits[sel_state_id][current_action - 1]
              /\ \A s \in DOMAIN n_visits : s # sel_state_id =>
                     (n_visits'[s] = n_visits[s] /\ cum_rewards'[s] = cum_rewards[s])
      ]_vars

\* an ABSF agent about to be rewarded for an action other than its previous one
C2_Witness ==
    /\ encoding = "ABSF"
    /\ pc = "agent_next"
    /\ n_updates = 1
    /\ current_action # last_action
    /\ sel_state_id = ravel(<<last_action - 1, state_[3], state_[4], state_[5]>>, state_dims("ABSF"))

\* C3 as stated: the nextState call reporting the reward of the first action of
\* an episode leaves both tables unchanged
C3_FirstActionNoUpdate ==
    [][ (pc = "agent_next" /\ time_step_ = 0) =>
            (cum_rewards' = cum_rewards /\ n_visits' = n_visits) ]_vars

\* C3 amended: the call left without an update is the one Environment.reset makes
\* with the initial state and reward 0; the call reporting the reward of the first
\* chosen action updates the entry (state index of the initial state, that action)
C3_ResetCallSkippedFirstActionUpdated ==
    [][ /\ pc = "reset_next" =>
              (cum_rewards' = cum_rewards /\ n_visits' = n_visits)
        /\ (pc = "agent_next" /\ time_step_ = 0) =>
              LET row == get_state_id(encoding, getInitState, last_action)
              IN  /\ state_ = getInitState
                  /\ n_visits'[row][a - 1] = n_visits[row][a - 1] + 1
                  /\ cum_rewards'[row][a - 1] = cum_rewards[row][a - 1] + PassedReward
                  /\ n_updates' = n_updates + 1
      ]_vars

\* the first step of the first episode is over and the table holds its update
C3_Witness ==
    /\ pc = "loop"
    /\ time_step_ = 1
    /\ n_updates = 1
    /\ Changed(InitTable(encoding, visitInit(kind)), n_visits) = {<<sel_state_id, a - 1>>}
    /\ sel_state_id \in {get_state_id(encoding, getInitState, la) : la \in AgentGetAction}

\* the rewards of a step that ends the episode: the step reward (with the kill
\* reward when the wumpus was hit) plus the reward of the terminal cell
TerminalRewards ==
    {stp + e : stp \in {DEFAULT_REWARD, DEFAULT_REWARD + KILL_REWARD},
               e \in {TREASURE_REWARD, HOLE_REWARD, WUMPUS_REWARD}}

\* C4: on a terminal step the reward with its terminal part goes to the entry of
\* the state/action pair that preceded the terminal state, while first_visit is
\* still false and current_action is still the rewarded action; the reset that
\* follows changes no table entry
C4_TerminalRewardBeforeReset ==
    [][ /\ (pc = "agent_next" /\ end_flag) =>
              /\ reward \in TerminalRewards
              /\ ~first_visit
              /\ n_visits'[sel_state_id][a - 1] = n_visits[sel_state_id][a - 1] + 1
              /\ cum_rewards'[sel_state_id][a - 1] = cum_rewards[sel_state_id][a - 1] + PassedReward
              /\ pc' = "end"
              /\ first_visit' = FALSE
              /\ current_action' = a
        /\ pc \in {"end", "reset_agent", "reset_next"} =>
              (cum_rewards' = cum_rewards /\ n_visits' = n_visits /\ n_updates' = n_updates)
      ]_vars

\* the treasure was reached on the second step; the reset is over and the table
\* holds the entry of that step with the treasure reward
C4_Witness ==
    /\ pc = "loop"
    /\ end_flag
    /\ reward = DEFAULT_REWARD + TREASURE_REWARD
    /\ time_step_ = 0
    /\ state_ = getInitState
    /\ n_updates = 2
    /\ cum_rewards[sel_state_id][a - 1] >= PassedReward
    /\ PassedReward > 0

\* C5: reset() of a learning agent changes no entry of cum_rewards or n_visits;
\* it sets first_visit to true and draws current_action anew, nothing else
C5_ResetKeepsTables ==
    [][ pc = "reset_agent" =>
            /\ cum_rewards' = cum_rewards
            /\ n_visits' = n_visits
            /\ first_visit' = TRUE
            /\ current_action' \in AgentGetAction
            /\ last_action' = last_action
            /\ state_' = state_
      ]_vars

\* reset() has run at the end of an episode on tables that hold two updates
C5_Witness ==
    /\ pc = "reset_next"
    /\ first_visit
    /\ n_updates = 2
    /\ Changed(InitTable(encoding, visitInit(kind)), n_visits) # {}

\* C6: an update (s, a, r) adds r to cum_rewards[s, a-1] (r rescaled for UCB) and
\* 1 to n_visits[s, a-1] and leaves every other entry of both tables as it was
C6_UpdateAddsRewardAndOneVisit ==
    [][ pc = "agent_next" =>
            LET r == IF kind = "UCB" THEN reward + 1 ELSE RewardScale * reward
            IN  /\ cum_rewards'[HeldStateId][a - 1] = cum_rewards[HeldStateId][a - 1] + r
                /\ n_visits'[HeldStateId][a - 1] = n_visits[HeldStateId][a - 1] + 1
                /\ \A c \in 0..(LenAction - 1) : c # a - 1 =>
                       /\ cum_rewards'[HeldStateId][c] = cum_rewards[HeldStateId][c]
                       /\ n_visits'[HeldStateId][c] = n_visits[HeldStateId][c]
                /\ \A s \in DOMAIN cum_rewards : s # HeldStateId =>
                       /\ cum_rewards'[s] = cum_rewards[s]
                       /\ n_visits'[s] = n_visits[s]
                /\ DOMAIN cum_rewards' = DOMAIN cum_rewards
                /\ DOMAIN n_visits' = DOMAIN n_visits
      ]_vars

\* one entry has been updated twice: it holds two visits and both rewards
C6_Witness ==
    /\ n_updates = 2
    /\ \E s \in DOMAIN n_visits : \E c \in 0..(LenAction - 1) :
          /\ n_visits[s][c] = visitInit(kind) + 2
          /\ cum_rewards[s][c] = 2 * PassedReward
          /\ PassedReward # 0

\* C7: every n_visits entry is at least 1 for EpsilonGreedy and Softmax and at
\* least 0 for UCB, and no entry decreases in any step
C7_VisitsBoundedBelowAndMonotone ==
    /\ [](\A s \in DOMAIN n_visits : \A c \in 0..(LenAction - 1) :
             /\ kind \in {"EpsilonGreedy", "Softmax"} => n_visits[s][c] >= 1
             /\ kind = "UCB" => n_visits[s][c] >= 0)
    /\ [][n_visits' # n_visits =>
             \A s \in DOMAIN n_visits : \A c \in 0..(LenAction - 1) :
                 n_visits'[s][c] >= n_visits[s][c]]_vars

\* a UCB table after an episode reset: entries counted from 0 to 1 and kept,
\* beside entries still at 0
C7_Witness ==
    /\ kind = "UCB"
    /\ pc = "loop"
    /\ time_step_ = 0
    /\ n_updates = 2
    /\ \E s \in DOMAIN n_visits : \E c \in 0..(LenAction - 1) : n_visits[s][c] = 1
    /\ \E s \in DOMAIN n_visits : \E c \in 0..(LenAction - 1) : n_visits[s][c] = 0

\* the tuples O with 0 <= O[i] < D[i]
Tuples(D) == {O \in [1..Len(D) -> 0..(MaxDim - 1)] : \A i \in 1..Len(D) : O[i] < D[i]}

InRange(O, D) == Len(O) = Len(D) /\ \A i \in 1..Len(D) : O[i] < D[i]

\* un-flattening of an index by a dimension list: the last coordinate is the
\* remainder by the last dimension
RECURSIVE unravel(_, _)
unravel(k, D) ==
    IF Len(D) = 1 THEN <<k>>
    ELSE LET n == Len(D)
         IN  Append(unravel(k \div D[n], SubSeq(D, 1, n - 1)), k % D[n])

\* product of the dimensions after position i
RECURSIVE Stride(_, _)
Stride(D, i) == IF i >= Len(D) THEN 1 ELSE D[i + 1] * Stride(D, i + 1)

\* sum of O[i] * Stride(D, i) over the positions i..Len(O)
RECURSIVE RowMajor(_, _, _)
RowMajor(O, D, i) == IF i > Len(O) THEN 0 ELSE O[i] * Stride(D, i) + RowMajor(O, D, i + 1)

\* C8: ravel is the row-major index: each coordinate weighs the product of the
\* dimensions listed after it, so the last listed dimension varies fastest; for
\* dims [2,3]: [0,0]->0, [0,1]->1, [0,2]->2, [1,0]->3
C8_RavelIsRowMajor ==
    (pc = "raveled" /\ Len(coords) = Len(dims)) =>
        /\ id = RowMajor(coords, dims, 1)
        /\ dims = <<2, 3>> =>
              /\ coords = <<0, 0>> => id = 0
              /\ coords = <<0, 1>> => id = 1
              /\ coords = <<0, 2>> => id = 2
              /\ coords = <<1, 0>> => id = 3
        /\ (coords[Len(coords)] + 1 < dims[Len(dims)]) =>
              ravel([coords EXCEPT ![Len(coords)] = @ + 1], dims) = id + 1

\* ravel([1,0], [2,3]) has returned 3
C8_Witness ==
    /\ pc = "raveled"
    /\ dims = <<2, 3>>
    /\ coords = <<1, 0>>
    /\ id = 3

\* C9: for O within D, ravel(O, D) lies in [0, product of D), no other tuple
\* within D has the same index, every index of the range is the index of a tuple,
\* and un-flattening the index by D gives O back
C9_RavelIsBijection ==
    (pc = "raveled" /\ InRange(coords, dims)) =>
        /\ id >= 0
        /\ id < prod(dims)
        /\ \A O \in Tuples(dims) : ravel(O, dims) = id => O = coords
        /\ unravel(id, dims) = coords
        /\ (\A i \in 1..Len(coords) : coords[i] = 0) =>
              \A k \in 0..(prod(dims) - 1) : \E O \in Tuples(dims) : ravel(O, dims) = k

\* the last tuple of a three-dimensional list with unequal dimensions has the
\* last index
C9_Witness ==
    /\ pc = "raveled"
    /\ dims = <<2, 3, 2>>
    /\ coords = <<1, 2, 1>>
    /\ id = 11

\* C10: every component of the tuple an encoding extracts is inside its declared
\* dimension (x and y in [0, grid_size), smell and breeze in {0,1}, remaining
\* flashes in [0, n_flash], last_action-1 in [0, 8)), for the state the agent holds
\* and for the state Environment.nextState returns, so the state index of BSF,
\* ABSF and XYBSF is a row of the tables
C10_StateIndexInTable ==
    \A st \in {state_, new_state} \ {<<>>} :
        /\ Len(st) = 5
        /\ st[1] \in 0..(grid_size - 1)
        /\ st[2] \in 0..(grid_size - 1)
        /\ st[3] \in {0, 1}
        /\ st[4] \in {0, 1}
        /\ st[5] \in 0..n_flash
        /\ state_ # <<>> =>
              /\ last_action - 1 \in 0..7
              /\ \A enc \in Encodings :
                    /\ Len(get_state(enc, st, last_action)) = Len(state_dims(enc))
                    /\ \A i \in 1..Len(state_dims(enc)) :
                          get_state(enc, st, last_action)[i] \in 0..(state_dims(enc)[i] - 1)
                    /\ get_state_id(enc, st, last_action) \in 0..(NRows(enc) - 1)
              /\ get_state_id(encoding, st, last_action) \in DOMAIN cum_rewards
              /\ get_state_id(encoding, st, last_action) \in DOMAIN n_visits

\* on the torus the agent has stepped left over the edge and used its flash
C10_Witness ==
    /\ TORE_TOPO
    /\ pc = "loop"
    /\ state_ = <<grid_size - 1, 0, 0, 0, 0>>
    /\ last_action = FLASH_RIGHT
    /\ get_state_id("ABSF", state_, last_action) = NRows("ABSF") - prod(state_dims("BSF"))

\* C11: EpsilonGreedy with epsilon = 0 returns an action whose mean
\* cum_rewards[s,a]/n_visits[s,a] no action of the current state index exceeds,
\* and every action of a lower index has a strictly smaller mean; the table row
\* and the state index therefore fix the result
C11_GreedyIsFirstArgmax ==
    (kind = "EpsilonGreedy" /\ epsilon = "zero" /\ pc = "env") =>
        /\ sel_state_id = HeldStateId
        /\ \A j \in 0..(LenAction - 1) :
              /\ cum_rewards[sel_state_id][j] * n_visits[sel_state_id][a - 1]
                     <= cum_rewards[sel_state_id][a - 1] * n_visits[sel_state_id][j]
              /\ j < a - 1 =>
                     cum_rewards[sel_state_id][j] * n_visits[sel_state_id][a - 1]
                         < cum_rewards[sel_state_id][a - 1] * n_visits[sel_state_id][j]

\* the greedy agent has returned DOWN: UP has a smaller mean, RIGHT the same
\* positive mean as DOWN, and LEFT has never been chosen
C11_Witness ==
    /\ kind = "EpsilonGreedy"
    /\ epsilon = "zero"
    /\ pc = "env"
    /\ a = DOWN
    /\ cum_rewards[sel_state_id][DOWN - 1] > 0
    /\ cum_rewards[sel_state_id][RIGHT - 1] = cum_rewards[sel_state_id][DOWN - 1]
    /\ n_visits[sel_state_id][RIGHT - 1] = n_visits[sel_state_id][DOWN - 1]
    /\ cum_rewards[sel_state_id][UP - 1] < 0
    /\ n_visits[sel_state_id][LEFT - 1] = 1

\* C12: whenever an EpsilonGreedy agent with epsilon = 1 is asked for an action,
\* each of the 8 actions UP .. FLASH_RIGHT is a possible result of getAction
C12_EveryActionPossible ==
    (kind = "EpsilonGreedy" /\ epsilon = "one" /\ pc = "loop" /\ n_calls < max_n_episode) =>
        \A act \in Action : ENABLED (GetAction /\ a' = act)

\* C13: whenever UCB is asked for an action in a state index where at least one
\* action has n_visits = 0, it returns one of the 8 actions, and one whose
\* n_visits there is 0
C13_UnvisitedActionFirst ==
    (kind = "UCB" /\ pc = "env" /\ \E j \in 0..(LenAction - 1) : n_visits[sel_state_id][j] = 0) =>
        /\ a \in Action
        /\ sel_state_id = HeldStateId
        /\ n_visits[sel_state_id][a - 1] = 0

\* UCB has returned the unvisited DOWN although UP, visited twice, has a positive mean
C13_Witness ==
    /\ kind = "UCB"
    /\ pc = "env"
    /\ a = DOWN
    /\ n_visits[sel_state_id][DOWN - 1] = 0
    /\ n_visits[sel_state_id][UP - 1] = 2
    /\ cum_rewards[sel_state_id][UP - 1] > 0

\* C14: for every reward Environment.nextState returns, the value UCB.nextState
\* feeds to the table, (reward + 1) / 101, lies between 0 and 1
C14_ScaledRewardInUnitInterval ==
    pc = "agent_next" =>
        /\ 0 <= tableReward("UCB", reward)
        /\ tableReward("UCB", reward) <= RewardScale

C16_RightFromResetNoBreeze ==
    [][ (/\ pc = "env"
         /\ TORE_TOPO
         /\ state_ = <<0, 0, 0, 0, opt_n_flash>>
         /\ wumpus_pos_ = <<1, 2>>
         /\ a = RIGHT) =>
            /\ reward' = -1
            /\ new_state' = <<1, 0, 0, 0, opt_n_flash>>
            /\ end_flag' = FALSE
      ]_vars

\* C16 as the code has it: from the reset state [0,0,0,0,5] on the toroidal grid
\* (hole at (1,1), wumpus at [1,2]) the action RIGHT makes Environment.nextState
\* return reward -1, end_flag false and the new state [1,0,0,1,5], whose breeze
\* flag is set because (1,0) is next to the hole
C16_RightFromResetFeelsBreeze ==
    [][ (/\ pc = "env"
         /\ TORE_TOPO
         /\ state_ = <<0, 0, 0, 0, opt_n_flash>>
         /\ wumpus_pos_ = <<1, 2>>
         /\ a = RIGHT) =>
            /\ reward' = -1
            /\ new_state' = <<1, 0, 0, 1, opt_n_flash>>
            /\ end_flag' = FALSE
      ]_vars

\* the step RIGHT from the reset state has been made, the wumpus standing still
C16_Witness ==
    /\ pc = "agent_next"
    /\ TORE_TOPO
    /\ ~DYN_WUMPUS
    /\ state_ = <<0, 0, 0, 0, opt_n_flash>>
    /\ wumpus_pos_ = <<1, 2>>
    /\ a = RIGHT
    /\ new_state = <<1, 0, 0, 1, opt_n_flash>>
    /\ reward = -1
    /\ ~end_flag

\* C17: whenever a step moves the agent onto the treasure cell, and that cell
\* holds neither the wumpus nor the hole, Environment.nextState returns
\* reward +100 and end_flag true
C17_TreasurePaysHundred ==
    [][ (/\ pc = "env"
         /\ a \in {UP, DOWN, LEFT, RIGHT}
         /\ <<new_state'[1], new_state'[2]>> = treasure_pos_
         /\ wumpus_pos_ # treasure_pos_
         /\ hole_pos_ # treasure_pos_) =>
            /\ reward' = 100
            /\ end_flag' = TRUE
      ]_vars

\* C17 as the code has it: whenever a step moves the agent onto the treasure
\* cell, and that cell holds neither the wumpus nor the hole,
\* Environment.nextState returns end_flag true and reward 99, the treasure's 100
\* less the cost 1 of the step
C17_TreasurePaysNinetyNine ==
    [][ (/\ pc = "env"
         /\ a \in {UP, DOWN, LEFT, RIGHT}
         /\ <<new_state'[1], new_state'[2]>> = treasure_pos_
         /\ wumpus_pos_ # treasure_pos_
         /\ hole_pos_ # treasure_pos_) =>
            /\ reward' = 99
            /\ end_flag' = TRUE
      ]_vars

\* on the bounded grid the agent has stepped UP onto the treasure
C17_Witness ==
    /\ pc = "agent_next"
    /\ ~TORE_TOPO
    /\ a = UP
    /\ <<state_[1], state_[2]>> = <<grid_size - 1, grid_size - 2>>
    /\ <<new_state[1], new_state[2]>> = treasure_pos_
    /\ wumpus_pos_ = InitWumpusPos
    /\ reward = 99
    /\ end_flag

\* C18: EngineeredAgent.getAction returns a flash action only when the smell
\* flag of the agent's state (the third component, as Environment.nextState
\* lays the state out) is set and the remaining flash count is greater than 0;
\* in every other state it returns one of the four moves
C18_FlashOnlyOnSmell ==
    (kind = "Engineered" /\ pc = "env") =>
        /\ a \in Action
        /\ a \in {FLASH_UP, FLASH_DOWN, FLASH_LEFT, FLASH_RIGHT} => (state_[3] = 1 /\ state_[5] > 0)

\* C19: a ravel call whose coordinate tuple and dimension list differ in length
\* is reported as an error: it returns no state index (id keeps the value -1 it
\* has before the call)
C19_LengthMismatchIsError ==
    (pc = "raveled" /\ Len(coords) # Len(dims)) => id = -1

RECURSIVE SumRow(_, _, _)
\* (row[0] - v) + .. + (row[c] - v)
SumRow(row, v, c) == IF c < 0 THEN 0 ELSE (row[c] - v) + SumRow(row, v, c - 1)

RECURSIVE SumRows(_, _, _)
\* the sum of (entry - v) over the rows S of a table
SumRows(table, v, S) ==
    IF S = {} THEN 0
    ELSE LET s == CHOOSE x \in S : TRUE
         IN  SumRow(table[s], v, LenAction - 1) + SumRows(table, v, S \ {s})

\* the sum over all entries of (entry - v): a row whose entries all equal v adds 0
TableSum(table, v) ==
    SumRows(table, v, {s \in DOMAIN table : table[s] # [c \in 0..(LenAction - 1) |-> v]})

\* updateLoop steps that have made their nextState call
StepsTaken == IF pc \in {"env", "agent_next"} THEN n_calls - 1 ELSE n_calls

\* C20: for a learning agent, across steps and episodes, the sum over all
\* entries of n_visits minus its initial value equals the number of updateLoop
\* steps taken so far; the sum of cum_rewards is 0 before the first step, grows
\* by the (for UCB rescaled) reward of each step when that step calls nextState
\* and changes in no other step, an episode's reset included
C20_TablesAccountForEveryStep ==
    /\ [](TableSum(n_visits, IF kind = "UCB" THEN 0 ELSE 1) = StepsTaken)
    /\ [](n_calls = 0 => TableSum(cum_rewards, 0) = 0)
    /\ [][ /\ pc = "agent_next" =>
                 TableSum(cum_rewards', 0) = TableSum(cum_rewards, 0) + PassedReward
           /\ pc # "agent_next" =>
                 (cum_rewards' = cum_rewards \/ TableSum(cum_rewards', 0) = TableSum(cum_rewards, 0))
         ]_vars

\* a Softmax agent after an episode of two steps that ended on the treasure and
\* was reset: two visits counted, and the rewards -1 and 99 in the table
C20_Witness ==
    /\ kind = "Softmax"
    /\ pc = "loop"
    /\ n_calls = 2
    /\ time_step_ = 0
    /\ first_visit = FALSE
    /\ TableSum(n_visits, 1) = 2
    /\ TableSum(cum_rewards, 0) = 98 * RewardScale

\* C21: once a successful flash has set the wumpus position to [-1,-1], the
\* position is [-1,-1] when that Environment.nextState call returns and stays
\* [-1,-1] in every later step until the next Environment.reset, with
\* --wumpus_dyn True as with False and on both topologies
C21_DeadWumpusStaysDead ==
    [][ /\ (pc = "env" /\ a \in flashes /\ state_[5] > 0 /\ flashAgent(state_, a, wumpus_pos_)) =>
              wumpus_pos_' = <<-1, -1>>
        /\ (wumpus_pos_ = <<-1, -1>> /\ pc # "reset_next") =>
              wumpus_pos_' = <<-1, -1>>
      ]_vars

\* C22: at the return of every Environment.nextState call, if the wumpus is on
\* the cell of the agent's new position then end_flag is true; and no step
\* starts with the agent on the cell of a live wumpus, --wumpus_dyn True included
C22_NeverSharesCellWithWumpus ==
    /\ pc = "agent_next" =>
           (wumpus_pos_ = <<new_state[1], new_state[2]>> => end_flag)
    /\ pc = "env" => wumpus_pos_ # <<state_[1], state_[2]>>

\* C23: in every state the agent holds (the reset state and every state
\* Environment.nextState has returned), the smell component is 1 exactly when
\* the Manhattan distance from the agent's position to the current wumpus
\* position is below 2, and the breeze component is 1 exactly when the distance
\* to the hole (1,1) is below 2
C23_SensesMatchPositions ==
    pc \in {"loop", "end", "done"} =>
        /\ state_[3] \in {0, 1}
        /\ state_[4] \in {0, 1}
        /\ state_[3] = 1 <=>
               Abs(wumpus_pos_[1] - state_[1]) + Abs(wumpus_pos_[2] - state_[2]) < 2
        /\ state_[4] = 1 <=>
               Abs(1 - state_[1]) + Abs(1 - state_[2]) < 2

\* C24: a flash action never changes the agent's position; with remaining
\* flashes > 0 it decrements the count by exactly 1 whether or not the wumpus is
\* hit; with remaining flashes = 0 it leaves the count and the wumpus position
\* unchanged and earns no kill reward
C24_FlashFrameWumpusUnmoved ==
    [][ (pc = "env" /\ a \in {FLASH_UP, FLASH_DOWN, FLASH_LEFT, FLASH_RIGHT}) =>
            /\ <<new_state'[1], new_state'[2]>> = <<state_[1], state_[2]>>
            /\ state_[5] > 0 => new_state'[5] = state_[5] - 1
            /\ state_[5] = 0 =>
                   /\ new_state'[5] = 0
                   /\ wumpus_pos_' = wumpus_pos_
                   /\ reward' \in {-1, -11}
      ]_vars

\* C24 as the code has it: a flash action never changes the agent's position;
\* with remaining flashes > 0 it decrements the count by exactly 1 whether or
\* not the wumpus is hit; with remaining flashes = 0 it leaves the count
\* unchanged and earns no kill reward; the wumpus position is unchanged with
\* --wumpus_dyn False, and with --wumpus_dyn True it changes only by the one
\* move (UP, DOWN or LEFT) moveWumpus makes in every step
C24_FlashFrameWumpusOnlyMoved ==
    [][ (pc = "env" /\ a \in {FLASH_UP, FLASH_DOWN, FLASH_LEFT, FLASH_RIGHT}) =>
            /\ <<new_state'[1], new_state'[2]>> = <<state_[1], state_[2]>>
            /\ state_[5] > 0 => new_state'[5] = state_[5] - 1
            /\ state_[5] = 0 =>
                   /\ new_state'[5] = 0
                   /\ ~DYN_WUMPUS => wumpus_pos_' = wumpus_pos_
                   /\ DYN_WUMPUS =>
                          wumpus_pos_' \in {moveAgent(TORE_TOPO, wumpus_pos_, m) : m \in {UP, DOWN, LEFT}}
                   /\ reward' \in {-1, -11}
      ]_vars

\* a flash with none left, the wumpus standing on the lit cell, has changed nothing
C24_Witness ==
    /\ pc = "agent_next"
    /\ ~DYN_WUMPUS
    /\ a = FLASH_RIGHT
    /\ state_[5] = 0
    /\ new_state[5] = 0
    /\ wumpus_pos_ = <<state_[1] + 1, state_[2]>>
    /\ <<new_state[1], new_state[2]>> = <<state_[1], state_[2]>>
    /\ reward = -1

\* C25: whenever a step returns end_flag true, updateLoop goes on to the resets
\* and finishes with the agent's state equal to [0,0,0,0,n_flash], the wumpus at
\* [1,2], time_step_ = 0, cumul_reward_ = 0 and, for a learning agent,
\* first_visit false and last_action equal to the freshly seeded current_action;
\* when end_flag is false updateLoop finishes without any of these resets: the
\* agent holds the new state, the counters have advanced by one step and by the
\* reward, and the wumpus and current_action are as the step left them
C25_ResetExactlyOnEnd ==
    /\ [](( pc = "loop" /\ time_step_ = 0 ) =>
              /\ state_ = <<0, 0, 0, 0, n_flash>>
              /\ wumpus_pos_ = <<1, 2>>
              /\ cumul_reward_ = 0
              /\ kind # "Engineered" =>
                     (first_visit = FALSE /\ last_action = current_action
                          /\ current_action \in 1..(LenAction - 1)))
    /\ [][ /\ (pc = "agent_next" /\ end_flag) => pc' = "end"
           /\ pc = "end" => (pc' = "reset_agent" /\ time_step_' = 0 /\ cumul_reward_' = 0)
           /\ pc = "reset_agent" => pc' = "reset_next"
           /\ pc = "reset_next" => pc' = "loop"
           /\ (pc = "agent_next" /\ ~end_flag) =>
                  /\ pc' = "loop"
                  /\ state_' = new_state
                  /\ time_step_' = time_step_ + 1
                  /\ cumul_reward_' = cumul_reward_ + reward
                  /\ wumpus_pos_' = wumpus_pos_
                  /\ current_action' = current_action
         ]_vars

\* the second step of a learning agent has ended the episode in the hole, and
\* updateLoop has finished with the resets
C25_Witness ==
    /\ kind = "Softmax"
    /\ pc = "loop"
    /\ n_calls = 2
    /\ time_step_ = 0
    /\ end_flag
    /\ <<new_state[1], new_state[2]>> = hole_pos_
    /\ state_ = <<0, 0, 0, 0, n_flash>>
    /\ wumpus_pos_ = <<1, 2>>
    /\ last_action = current_action

\* C26: every reward Environment.nextState returns is -11 (death by wumpus or
\* hole), -1 (plain step), 4 (kill) or 99 (treasure): -11 and 99 come with
\* end_flag true, -1 and 4 with end_flag false, so a kill reward and a terminal
\* reward never occur in the same step
C26_RewardIsOneOfFour ==
    pc = "agent_next" =>
        /\ reward \in {-11, -1, 4, 99}
        /\ end_flag <=> reward \in {-11, 99}
        /\ wumpus_pos_ = <<new_state[1], new_state[2]>> /\ end_flag /\ ~DYN_WUMPUS => reward = -11
        /\ <<new_state[1], new_state[2]>> = <<1, 1>> => reward = -11

\* the agent has stepped onto the treasure cell while the moving wumpus stood on
\* it: the step returned -11 and ended the episode
C26_Witness ==
    /\ pc = "agent_next"
    /\ DYN_WUMPUS
    /\ a \in moves
    /\ <<new_state[1], new_state[2]>> = treasure_pos_
    /\ <<state_[1], state_[2]>> # treasure_pos_
    /\ reward = -11
    /\ end_flag

\* C27: the main loop calls updateLoop exactly max_n_episode times and then
\* terminates: the run reaches its end, it has then made max_n_episode calls and
\* takes no further step; every call advances time_step_ by one, no call is
\* made beyond max_n_episode, and the number of episodes that have ended never
\* exceeds the number of calls made, hence never max_n_episode
C27_MaxEpisodeCallsThenStop ==
    /\ <>(pc = "done")
    /\ [](pc = "done" => n_calls = max_n_episode)
    /\ [](n_calls <= max_n_episode /\ n_episodes <= n_calls)
    /\ [][ /\ pc # "done"
           /\ n_calls' = IF pc = "loop" /\ pc' = "env" THEN n_calls + 1 ELSE n_calls
           /\ pc = "agent_next" => time_step_' = time_step_ + 1
           /\ (pc = "loop" /\ n_calls < max_n_episode) => pc' = "env"
         ]_vars

\* the run of two calls is over and its one episode ended with the second call
C27_Witness ==
    /\ kind = "Engineered"
    /\ pc = "done"
    /\ n_calls = max_n_episode
    /\ n_episodes = 1
    /\ time_step_ = 0

====
